---- MODULE Spec2Model ----
(***************************************************************************)
(* Model of the publish-informational-card App Builder action              *)
(* (src/app-builder/publish-informational-card.js): the token resolver     *)
(* resolveStaticTokens with the module-level PROFILE_TOKEN_REGEX, and the  *)
(* action's entry point main with its source fetch and destination write;  *)
(* and of the React component InformationalCard with resolveProfileTokens  *)
(* (src/unnamed/part_000), which displays the published payload.           *)
(*                                                                         *)
(* Strings that the regular expressions scan are sequences of one-character*)
(* strings; JavaScript values are tagged records.                          *)
(***************************************************************************)
EXTENDS Integers, Sequences, FiniteSets, TLC

VARIABLES
    lastIndex,   \* PROFILE_TOKEN_REGEX.lastIndex: the /g regex object lives as long as the process
    rcall,       \* the latest direct call of resolveStaticTokens (SpecResolve)
    inv,         \* the invocations of main, one per lane of the process (Spec)
    ui           \* the InformationalCard instance: its props, state and effects (SpecUI)

vars == <<lastIndex, rcall, inv, ui>>

(***************************************************************************)
(* Bounds                                                                  *)
(***************************************************************************)
\* the number of pieces a text given to resolveStaticTokens is made of
MaxParts == 2
\* the number of invocations of main that may be in flight in the process at once
NumLanes == 2
\* the number of times the effect of InformationalCard runs: the mount and the changes
\* of card.contentUrl
MaxEffects == 3

(***************************************************************************)
(* JavaScript values                                                       *)
(***************************************************************************)
Undefined == [t |-> "undefined"]
Null == [t |-> "null"]
NaN == [t |-> "NaN"]
Str(s) == [t |-> "string", s |-> s]
Num(n) == [t |-> "number", n |-> n]

\* ToBoolean, as `!v` and `v || w` use it
Truthy(v) ==
    CASE v.t = "string" -> v.s # <<>>
      [] v.t = "number" -> v.n # 0
      [] v.t = "object" -> TRUE
      [] OTHER -> FALSE

\* a || b
JsOr(a, b) == IF Truthy(a) THEN a ELSE b

(***************************************************************************)
(* Characters and the pieces of the regular expressions                    *)
(***************************************************************************)
\* \s, within the alphabet of the model
WhiteSpace == {" "}

\* the literal `profile\.` of PROFILE_TOKEN_REGEX
ProfilePrefix == <<"p", "r", "o", "f", "i", "l", "e", ".">>

\* String.prototype.trim
RECURSIVE Trim(_)
Trim(s) ==
    IF s = <<>> THEN s
    ELSE IF s[1] \in WhiteSpace THEN Trim(Tail(s))
    ELSE IF s[Len(s)] \in WhiteSpace THEN Trim(SubSeq(s, 1, Len(s) - 1))
    ELSE s

\* the position of the first `}` of s at or after from (positions from 1), 0 if none:
\* where a greedy [^}]+ that starts at from has to stop
RECURSIVE FirstClose(_, _)
FirstClose(s, from) ==
    IF from > Len(s) THEN 0
    ELSE IF s[from] = "}" THEN from
    ELSE FirstClose(s, from + 1)

\* the position of the first character of s at or after from that \s* does not take
RECURSIVE SkipSpace(_, _)
SkipSpace(s, from) ==
    IF from > Len(s) THEN from
    ELSE IF s[from] \notin WhiteSpace THEN from
    ELSE SkipSpace(s, from + 1)

\* /\{\{\s*([^}]+)\s*\}\}/ tried at position i of s: the position of the match's
\* last character, 0 when there is no match at i
TokenEndAt(s, i) ==
    IF i + 1 <= Len(s) /\ s[i] = "{" /\ s[i + 1] = "{"
    THEN LET j == FirstClose(s, i + 2)
         IN  IF j > i + 2 /\ j + 1 <= Len(s) /\ s[j + 1] = "}" THEN j + 1 ELSE 0
    ELSE 0

\* the capture group ([^}]+) of the match of s at i..e: the leading \s* is greedy and
\* gives one character back only when the whole content is white space
TokenGroup(s, i, e) ==
    LET content == SubSeq(s, i + 2, e - 2)
        p == SkipSpace(content, 1)
    IN  IF p <= Len(content) THEN SubSeq(content, p, Len(content))
        ELSE <<content[Len(content)]>>

\* /\{\{\s*profile\.[^}]+\}\}/ tried at position i of m: the position of the match's
\* last character, 0 when there is no match at i
ProfileEndAt(m, i) ==
    IF i + 1 <= Len(m) /\ m[i] = "{" /\ m[i + 1] = "{"
    THEN LET p == SkipSpace(m, i + 2)
             q == p + Len(ProfilePrefix)
         IN  IF q - 1 <= Len(m) /\ SubSeq(m, p, q - 1) = ProfilePrefix
             THEN LET j == FirstClose(m, q)
                  IN  IF j > q /\ j + 1 <= Len(m) /\ m[j + 1] = "}" THEN j + 1 ELSE 0
             ELSE 0
    ELSE 0

\* the end of the leftmost match of PROFILE_TOKEN_REGEX in m that starts at or after
\* position i, 0 if none
RECURSIVE ProfileSearch(_, _)
ProfileSearch(m, i) ==
    IF i > Len(m) THEN 0
    ELSE IF ProfileEndAt(m, i) # 0 THEN ProfileEndAt(m, i)
    ELSE ProfileSearch(m, i + 1)

\* PROFILE_TOKEN_REGEX.test(m) with the regex object's lastIndex at li: a /g regex
\* searches from lastIndex, leaves lastIndex after the match it finds, and resets it
\* to 0 when it finds none
ProfileTest(m, li) ==
    LET e == IF li > Len(m) THEN 0 ELSE ProfileSearch(m, li + 1)
    IN  [result |-> e # 0, lastIndex |-> e]

\* what the replacer returns once PROFILE_TOKEN_REGEX.test(match) has answered
Replacement(match, trimmed, staticTokens, isProfile) ==
    IF isProfile THEN match
    ELSE IF trimmed \in DOMAIN staticTokens THEN staticTokens[trimmed]
    ELSE match

\* PROFILE_TOKEN_REGEX.test(match) inside the replacer: its answer decides the value
\* returned, and the lastIndex it leaves is the next test's starting point
Tested(match, trimmed, staticTokens, tested) ==
    [ret |-> Replacement(match, trimmed, staticTokens, tested.result),
     lastIndex |-> tested.lastIndex]

\* the replacer callback of resolveStaticTokens: (match, token) => ...
Replacer(match, token, staticTokens, li) ==
    Tested(match, Trim(token), staticTokens, ProfileTest(match, li))

\* the text before a match, the replacer's return value and the rest of the scan
Join(prefix, match, token, r, rest) ==
    [out |-> prefix \o r.ret \o rest.out,
     lastIndex |-> rest.lastIndex,
     matches |-> <<[text |-> match, name |-> Trim(token), ret |-> r.ret]>> \o rest.matches]

\* the start of the leftmost match of the token regex in s at or after position i, 0 if none
RECURSIVE TokenSearch(_, _)
TokenSearch(s, i) ==
    IF i > Len(s) THEN 0
    ELSE IF TokenEndAt(s, i) # 0 THEN i
    ELSE TokenSearch(s, i + 1)

\* input.replace(/\{\{\s*([^}]+)\s*\}\}/g, replacer) from position pos of s on: the
\* matches are taken left to right, each search starting after the match before
RECURSIVE Replace(_, _, _, _)
Replace(s, pos, staticTokens, li) ==
    LET i == TokenSearch(s, pos)
    IN  IF i = 0
        THEN [out |-> SubSeq(s, pos, Len(s)), lastIndex |-> li, matches |-> <<>>]
        ELSE LET e == TokenEndAt(s, i)
                 match == SubSeq(s, i, e)
                 token == TokenGroup(s, i, e)
                 r == Replacer(match, token, staticTokens, li)
             IN  Join(SubSeq(s, pos, i - 1), match, token, r,
                      Replace(s, e + 1, staticTokens, r.lastIndex))

\* a resolver that scans its own output once more, expanding the tokens that the
\* replacement values brought in
resolveStaticTokensRescanning(input, staticTokens, li) ==
    IF ~Truthy(input)
    THEN [ret |-> input, lastIndex |-> li, matches |-> <<>>]
    ELSE LET r == Replace(input.s, 1, staticTokens, li)
             again == Replace(r.out, 1, staticTokens, r.lastIndex)
         IN  [ret |-> Str(again.out), lastIndex |-> again.lastIndex, matches |-> r.matches]

\* resolveStaticTokens(input, staticTokens) with PROFILE_TOKEN_REGEX.lastIndex at li:
\* the value returned, the lastIndex left behind, and the matches replaced on the way
resolveStaticTokens(input, staticTokens, li) ==
    IF ~Truthy(input)
    THEN [ret |-> input, lastIndex |-> li, matches |-> <<>>]
    ELSE LET r == Replace(input.s, 1, staticTokens, li)
         IN  [ret |-> Str(r.out), lastIndex |-> r.lastIndex, matches |-> r.matches]

(***************************************************************************)
(* Inputs of the token resolver                                            *)
(***************************************************************************)
Tok(name) == <<"{", "{">> \o name \o <<"}", "}">>

NameX == <<"x">>
NameY == <<"y">>
NameProfile == ProfilePrefix \o <<"a">>
\* a static token's name that itself holds the text of a profile token
NameNested == <<"x">> \o <<"{", "{">> \o NameProfile

\* the pieces texts are made of
Pieces ==
    { <<"a">>,
      Tok(NameX),
      Tok(<<" ">> \o NameX \o <<" ">>),
      Tok(NameProfile),
      Tok(<<" ">> \o NameProfile \o <<" ">>),
      Tok(NameNested),
      Tok(<<"u">>),
      <<"{">> }

\* the texts made of at most n pieces
RECURSIVE TextsOf(_)
TextsOf(n) ==
    IF n = 0 THEN {<<>>}
    ELSE LET shorter == TextsOf(n - 1)
         IN  shorter \cup {p \o t : p \in Pieces, t \in shorter}

\* the values given as input: absent, and every text of at most MaxParts pieces
Inputs == {Undefined} \cup {Str(t) : t \in TextsOf(MaxParts)}

\* the static token tables: token name -> replacement value
NoTokens == [k \in {} |-> <<>>]
\* a table with a key equal to a profile token's trimmed name
CollidingTable == (NameX :> <<"V">>) @@ (NameProfile :> <<"X">>)
\* a table with a key that holds the text of a profile token after other text
NestedTable == (NameX :> <<"V">>) @@ (NameNested :> <<"N">>)
\* a table with a value that holds token syntax
ChainTable == (NameX :> Tok(NameY)) @@ (NameY :> <<"W">>)

Tables == {NoTokens, CollidingTable, NestedTable, ChainTable}

(***************************************************************************)
(* SpecResolve: resolveStaticTokens called directly, again and again, in   *)
(* one process                                                             *)
(***************************************************************************)
NoCall == [n |-> 0]
\* no InformationalCard is mounted
NoUi == [mounted |-> FALSE]

InitResolve ==
    /\ lastIndex = 0
    /\ rcall = NoCall
    /\ inv = <<>>
    /\ ui = NoUi

\* resolveStaticTokens(input, staticTokens)
Call(input, staticTokens) ==
    LET r == resolveStaticTokens(input, staticTokens, lastIndex)
    IN  /\ rcall' = [n |-> 1, input |-> input, staticTokens |-> staticTokens,
                     ret |-> r.ret, matches |-> r.matches]
        /\ lastIndex' = r.lastIndex
        /\ UNCHANGED <<inv, ui>>

\* resolveStaticTokens(previous result, same table)
CallAgain ==
    /\ rcall.n = 1
    /\ LET r == resolveStaticTokens(rcall.ret, rcall.staticTokens, lastIndex)
       IN  /\ rcall' = [n |-> 2, input |-> rcall.ret, staticTokens |-> rcall.staticTokens,
                        ret |-> r.ret, matches |-> r.matches]
           /\ lastIndex' = r.lastIndex
    /\ UNCHANGED <<inv, ui>>

NextResolve ==
    \/ \E input \in Inputs, staticTokens \in Tables : Call(input, staticTokens)
    \/ CallAgain

SpecResolve == InitResolve /\ [][NextResolve]_vars

(***************************************************************************)
(* Conversions of JavaScript values                                        *)
(***************************************************************************)
Digits == <<"0", "1", "2", "3", "4", "5", "6", "7", "8", "9">>

\* Number.prototype.toString of a natural number
RECURSIVE NatToString(_)
NatToString(n) ==
    IF n < 10 THEN <<Digits[n + 1]>>
    ELSE NatToString(n \div 10) \o <<Digits[(n % 10) + 1]>>

\* `${v}`: ToString of a value inside a template literal
JsToString(v) ==
    CASE v.t = "string" -> v.s
      [] v.t = "number" -> NatToString(v.n)
      [] v.t = "NaN" -> <<"N", "a", "N">>
      [] v.t = "null" -> <<"n", "u", "l", "l">>
      [] OTHER -> <<"u", "n", "d", "e", "f", "i", "n", "e", "d">>

\* the value of a string of decimal digits
RECURSIVE DigitsValue(_)
DigitsValue(s) ==
    IF s = <<>> THEN 0
    ELSE 10 * DigitsValue(SubSeq(s, 1, Len(s) - 1))
         + ((CHOOSE d \in 1..10 : Digits[d] = s[Len(s)]) - 1)

\* Number(v): a string is trimmed, the empty string is 0, decimal digits are their
\* value and any other text is NaN
JsNumber(v) ==
    CASE v.t = "number" -> v
      [] v.t = "string" ->
            LET s == Trim(v.s)
            IN  IF \A k \in 1..Len(s) : \E d \in 1..10 : Digits[d] = s[k]
                THEN Num(DigitsValue(s))
                ELSE NaN
      [] v.t = "null" -> Num(0)
      [] OTHER -> NaN

\* what JSON.stringify writes for a property value: a property whose value is
\* undefined is left out, NaN is written as null
Omitted == [t |-> "omitted"]

JsonValue(v) ==
    CASE v.t = "undefined" -> Omitted
      [] v.t = "NaN" -> Null
      [] OTHER -> v

\* JSON.stringify(payload)
JsonStringify(payload) == [k \in DOMAIN payload |-> JsonValue(payload[k])]

(***************************************************************************)
(* fetchAemJson, putAemJson and main                                       *)
(***************************************************************************)
DefaultTTL == 86400

\* the request fetchAemJson(url, accessToken) sends
FetchRequest(url, accessToken) ==
    [method |-> "GET",
     url |-> url,
     headers |-> [Authorization |-> <<"Bearer ">> \o JsToString(accessToken),
                  ContentType |-> "application/json"]]

\* the request putAemJson(url, accessToken, body, ttlSeconds) sends
PutRequest(url, accessToken, body, ttlSeconds) ==
    [method |-> "PUT",
     url |-> url,
     headers |-> [Authorization |-> <<"Bearer ">> \o JsToString(accessToken),
                  ContentType |-> "application/json",
                  CacheControl |-> <<"public, max-age=">> \o JsToString(ttlSeconds)
                                      \o <<", immutable">>],
     body |-> JsonStringify(body)]

\* FetchError with a message that leaves the response's status out
FetchErrorWithoutStatus(res) ==
    [kind |-> "thrown", message |-> <<"AEM fetch failed: ">> \o res.text]

\* the Error fetchAemJson throws on a response that is not ok
FetchError(res) ==
    [kind |-> "thrown",
     message |-> <<"AEM fetch failed: ">> \o NatToString(res.status) \o <<" ">> \o res.text]

\* the Error putAemJson throws on a response that is not ok
PutError(res) ==
    [kind |-> "thrown",
     message |-> <<"AEM publish write failed: ">> \o NatToString(res.status) \o <<" ">>
                     \o res.text]

\* the rejection of fetch() itself (no response)
NetworkError == [kind |-> "thrown", message |-> <<"network error">>]

\* return { statusCode, body }
Returned(statusCode, body) == [kind |-> "returned", statusCode |-> statusCode, body |-> body]

\* cfJson?.elements || {}
ElementsOf(cfJson) ==
    IF cfJson.t = "object" /\ "elements" \in DOMAIN cfJson THEN cfJson.elements ELSE <<>>

\* elements?.<name>?.value
ValueOf(elements, name) ==
    IF name \in DOMAIN elements THEN elements[name] ELSE Undefined

\* staticTokens = {} in the destructuring of params
StaticTokensOf(params) ==
    IF "staticTokens" \in DOMAIN params THEN params.staticTokens ELSE <<>>

\* Number(elements?.cacheTTL?.value || 86400)
TtlOf(elements) == JsNumber(JsOr(ValueOf(elements, "cacheTTL"), Num(DefaultTTL)))

\* elements?.image?.value || null
ImageOf(elements) == JsOr(ValueOf(elements, "image"), Null)

\* elements?.ctaAction?.value || 'browser'
CtaActionOf(elements) ==
    JsOr(ValueOf(elements, "ctaAction"), Str(<<"b", "r", "o", "w", "s", "e", "r">>))

\* the properties of the payload that go through resolveStaticTokens, in source order
TextFields == <<"headline", "body", "ctaLabel", "termsText">>

\* one call of resolveStaticTokens done (r), the calls for the later properties follow
RECURSIVE ResolveFields(_, _, _, _)
ResolveNext(r, elements, staticTokens, names) ==
    LET later == ResolveFields(elements, staticTokens, names, r.lastIndex)
    IN  [rets |-> <<r.ret>> \o later.rets, lastIndex |-> later.lastIndex]

\* resolveStaticTokens(elements?.<name>?.value, staticTokens) for each name in turn,
\* each call starting with the PROFILE_TOKEN_REGEX.lastIndex the call before left
ResolveFields(elements, staticTokens, names, li) ==
    IF names = <<>> THEN [rets |-> <<>>, lastIndex |-> li]
    ELSE ResolveNext(resolveStaticTokens(ValueOf(elements, Head(names)), staticTokens, li),
                     elements, staticTokens, Tail(names))

\* the payload object literal of main, given its resolved text properties
PayloadOf(elements, resolved) ==
    [payload |-> [cardId |-> ValueOf(elements, "cardId"),
                  headline |-> resolved.rets[1],
                  body |-> resolved.rets[2],
                  image |-> ImageOf(elements),
                  ctaLabel |-> resolved.rets[3],
                  ctaAction |-> CtaActionOf(elements),
                  termsText |-> resolved.rets[4],
                  cacheTTL |-> TtlOf(elements)],
     lastIndex |-> resolved.lastIndex]

\* BuildPayload with the image run through resolveStaticTokens like the text properties
BuildPayloadResolvingImage(elements, staticTokens, li) ==
    LET built == PayloadOf(elements, ResolveFields(elements, staticTokens, TextFields, li))
    IN  [built EXCEPT !.payload.image =
            resolveStaticTokens(ImageOf(elements), staticTokens, 0).ret]

\* const ttl = ...; const payload = {...} with PROFILE_TOKEN_REGEX.lastIndex at li:
\* the payload and the lastIndex its four resolveStaticTokens calls leave behind
BuildPayload(elements, staticTokens, li) ==
    PayloadOf(elements, ResolveFields(elements, staticTokens, TextFields, li))

\* `${authorHost}${cfPath}.model.json`
CfUrl(params) == JsToString(params.authorHost) \o JsToString(params.cfPath) \o <<".model.json">>

\* `${publishHost}/content/cards/${cardId}.json`
PublishUrl(publishHost, cardId) ==
    JsToString(publishHost) \o <<"/content/cards/">> \o JsToString(cardId) \o <<".json">>

\* the state of a lane with no invocation in it
Idle == [pc |-> "idle"]

Lanes == 1..NumLanes

\* a lane is free before its first invocation and after an invocation has ended
Free(i) == inv[i].pc \in {"idle", "done"}

\* Main with a parameter check that looks at cfPath only
MainChecksPathOnly(i, params) ==
    /\ Free(i)
    /\ IF ~Truthy(params.cfPath)
       THEN inv' = [inv EXCEPT ![i] =
                [pc |-> "done", params |-> params, requests |-> <<>>,
                 outcome |-> Returned(400, "Missing required parameters")]]
       ELSE inv' = [inv EXCEPT ![i] =
                [pc |-> "fetching", params |-> params,
                 requests |-> <<FetchRequest(CfUrl(params), params.authorAccessToken)>>]]
    /\ UNCHANGED <<lastIndex, rcall, ui>>

\* main(params) up to its first await: the parameter check and the source fetch
Main(i, params) ==
    /\ Free(i)
    /\ IF ~Truthy(params.cfPath) \/ ~Truthy(params.authorHost) \/ ~Truthy(params.publishHost)
       THEN inv' = [inv EXCEPT ![i] =
                [pc |-> "done", params |-> params, requests |-> <<>>,
                 outcome |-> Returned(400, "Missing required parameters")]]
       ELSE inv' = [inv EXCEPT ![i] =
                [pc |-> "fetching", params |-> params,
                 requests |-> <<FetchRequest(CfUrl(params), params.authorAccessToken)>>]]
    /\ UNCHANGED <<lastIndex, rcall, ui>>

\* an end of main that first sends the source fetch once more
EndedAfterRetry(cur, res, outcome) ==
    [pc |-> "done", params |-> cur.params,
     requests |-> Append(cur.requests, cur.requests[1]), fetched |-> res,
     outcome |-> outcome]

\* main has ended after its source fetch settled with res
Ended(cur, res, outcome) ==
    [pc |-> "done", params |-> cur.params, requests |-> cur.requests, fetched |-> res,
     outcome |-> outcome]

\* main has built its payload and awaits putAemJson(publishUrl, publishAccessToken, payload, ttl)
Writing(cur, res, built, publishUrl) ==
    [lane |-> [pc |-> "writing", params |-> cur.params,
               requests |-> Append(cur.requests,
                                   PutRequest(publishUrl, cur.params.publishAccessToken,
                                              built.payload, built.payload.cacheTTL)),
               fetched |-> res, ttl |-> built.payload.cacheTTL, payload |-> built.payload,
               publishUrl |-> publishUrl],
     lastIndex |-> built.lastIndex]

\* AfterFetch without the check of cardId
AfterFetchNoCardIdCheck(cur, res, li) ==
    IF res.kind = "error" THEN [lane |-> Ended(cur, res, NetworkError), lastIndex |-> li]
    ELSE IF ~res.ok THEN [lane |-> Ended(cur, res, FetchError(res)), lastIndex |-> li]
    ELSE Writing(cur, res,
                 BuildPayload(ElementsOf(res.json), StaticTokensOf(cur.params), li),
                 PublishUrl(cur.params.publishHost, ValueOf(ElementsOf(res.json), "cardId")))

\* main from the settling of fetchAemJson to its next await or its end
AfterFetch(cur, res, li) ==
    IF res.kind = "error" THEN [lane |-> Ended(cur, res, NetworkError), lastIndex |-> li]
    ELSE IF ~res.ok THEN [lane |-> Ended(cur, res, FetchError(res)), lastIndex |-> li]
    ELSE IF ~Truthy(ValueOf(ElementsOf(res.json), "cardId"))
    THEN [lane |-> Ended(cur, res, Returned(422, "cardId is required")), lastIndex |-> li]
    ELSE Writing(cur, res,
                 BuildPayload(ElementsOf(res.json), StaticTokensOf(cur.params), li),
                 PublishUrl(cur.params.publishHost, ValueOf(ElementsOf(res.json), "cardId")))

\* the source fetch settles and main runs on to its next await or to its end
FetchSettles(i, res) ==
    /\ inv[i].pc = "fetching"
    /\ LET after == AfterFetch(inv[i], res, lastIndex)
       IN  /\ inv' = [inv EXCEPT ![i] = after.lane]
           /\ lastIndex' = after.lastIndex
    /\ UNCHANGED <<rcall, ui>>

\* the destination write settles and main ends
PutSettles(i, res) ==
    /\ inv[i].pc = "writing"
    /\ LET cur == inv[i]
           outcome == IF res.kind = "error" THEN NetworkError
                      ELSE IF ~res.ok THEN PutError(res)
                      ELSE Returned(200, [message |-> "Card payload published",
                                          publishUrl |-> cur.publishUrl])
       IN  inv' = [inv EXCEPT ![i] =
                [pc |-> "done", params |-> cur.params, requests |-> cur.requests,
                 fetched |-> cur.fetched, ttl |-> cur.ttl, payload |-> cur.payload,
                 publishUrl |-> cur.publishUrl, written |-> res, outcome |-> outcome]]
    /\ UNCHANGED <<lastIndex, rcall, ui>>

(***************************************************************************)
(* Inputs of main: invocation parameters, source records, responses        *)
(***************************************************************************)
\* hosts, paths and credentials are never scanned: each is one opaque chunk of text
ValidParams ==
    [cfPath |-> Str(<<"/content/dam/cards/personal-cup">>),
     authorHost |-> Str(<<"https://author.example.aem.cloud">>),
     publishHost |-> Str(<<"https://publish.example.aem.cloud">>),
     authorAccessToken |-> Str(<<"author-token">>),
     publishAccessToken |-> Str(<<"publish-token">>)]

WithTokens(params, staticTokens) ==
    [k \in DOMAIN params \cup {"staticTokens"} |->
        IF k = "staticTokens" THEN staticTokens ELSE params[k]]

\* valid parameters with a static token table, and the parameters with one of the
\* three required ones absent or empty (one of them without a table)
ParamsSet ==
    {WithTokens(ValidParams, CollidingTable),
     [ValidParams EXCEPT !.cfPath = Undefined],
     WithTokens([ValidParams EXCEPT !.authorHost = Str(<<>>)], CollidingTable),
     WithTokens([ValidParams EXCEPT !.publishHost = Undefined], CollidingTable)}

CardCup == Str(<<"c", "u", "p">>)
CardMug == Str(<<"m", "u", "g">>)

\* a dynamic card: a profile token in the headline, a token in the image reference
ElementsCup ==
    [cardId |-> CardCup,
     headline |-> Str(Tok(NameProfile)),
     body |-> Str(<<"a">>),
     image |-> Str(Tok(NameX)),
     cacheTTL |-> Num(3600)]

\* a card with every field, static and profile tokens side by side, and no TTL
ElementsMug ==
    [cardId |-> CardMug,
     headline |-> Str(Tok(NameX) \o <<" ">> \o Tok(NameProfile)),
     body |-> Str(Tok(<<" ">> \o NameProfile \o <<" ">>)),
     image |-> Str(<<>>),
     ctaLabel |-> Str(Tok(<<" ">> \o NameX \o <<" ">>)),
     ctaAction |-> Str(<<"o", "v", "e", "r", "l", "a", "y">>),
     termsText |-> Str(Tok(<<"u">>))]

ElementsSets ==
    { ElementsCup,
      ElementsMug,
      [cardId |-> CardCup, cacheTTL |-> Num(0)],
      [cardId |-> CardCup, cacheTTL |-> Str(<<"a", "b", "c">>)],
      [headline |-> Str(Tok(NameX)), cacheTTL |-> Num(3600)],
      [cardId |-> Str(<<>>), headline |-> Str(Tok(NameX))] }

\* what res.json() of the source fetch may be: an object with no elements, or a record
CfJsons == {[t |-> "object"]} \cup {[t |-> "object", elements |-> e] : e \in ElementsSets}

FetchResponses ==
    {[kind |-> "error"],
     [kind |-> "response", ok |-> FALSE, status |-> 404, text |-> <<"Not Found">>]}
    \cup {[kind |-> "response", ok |-> TRUE, status |-> 200, json |-> c] : c \in CfJsons}

PutResponses ==
    {[kind |-> "error"],
     [kind |-> "response", ok |-> FALSE, status |-> 503, text |-> <<"Unavailable">>],
     [kind |-> "response", ok |-> TRUE, status |-> 200]}

(***************************************************************************)
(* Spec: invocations of main in one process, NumLanes of them at a time    *)
(***************************************************************************)
Init ==
    /\ lastIndex = 0
    /\ rcall = NoCall
    /\ inv = [i \in Lanes |-> Idle]
    /\ ui = NoUi

Next ==
    \E i \in Lanes :
        \/ \E params \in ParamsSet : Main(i, params)
        \/ \E res \in FetchResponses : FetchSettles(i, res)
        \/ \E res \in PutResponses : PutSettles(i, res)

Spec == Init /\ [][Next]_vars

(***************************************************************************)
(* resolveProfileTokens and InformationalCard (src/unnamed/part_000)       *)
(***************************************************************************)
\* a JavaScript object with the given properties (property name -> value)
Obj(fields) == [t |-> "object", fields |-> fields]

\* the start of the leftmost match of /\{\{\s*profile\.([^}]+)\s*\}\}/ in s at or after
\* position i, 0 if none; the regex is a literal of the call, so each replace starts
\* from the beginning with no state kept
RECURSIVE ProfileStart(_, _)
ProfileStart(s, i) ==
    IF i > Len(s) THEN 0
    ELSE IF ProfileEndAt(s, i) # 0 THEN i
    ELSE ProfileStart(s, i + 1)

\* the capture group ([^}]+) of the match of s at i..e: all that stands between
\* `profile.` and the closing braces, the white space before them included, since the
\* greedy group takes it and the \s* after it is left with nothing
PathGroup(s, i, e) == SubSeq(s, SkipSpace(s, i + 2) + Len(ProfilePrefix), e - 2)

\* the position of the first `.` of path at or after from, 0 if none
RECURSIVE FirstDot(_, _)
FirstDot(path, from) ==
    IF from > Len(path) THEN 0
    ELSE IF path[from] = "." THEN from
    ELSE FirstDot(path, from + 1)

\* path.split('.')
RECURSIVE Split(_)
Split(path) ==
    IF FirstDot(path, 1) = 0 THEN <<path>>
    ELSE <<SubSeq(path, 1, FirstDot(path, 1) - 1)>>
             \o Split(SubSeq(path, FirstDot(path, 1) + 1, Len(path)))

\* acc[key]: the property of an object; a text of the model has no property of the
\* names the paths use
Property(acc, key) ==
    IF acc.t = "object" /\ key \in DOMAIN acc.fields THEN acc.fields[key] ELSE Undefined

\* keys.reduce((acc, key) => (acc ? acc[key] : undefined), acc)
RECURSIVE Reduce(_, _)
Reduce(keys, acc) ==
    IF keys = <<>> THEN acc
    ELSE Reduce(Tail(keys), IF Truthy(acc) THEN Property(acc, Head(keys)) ELSE Undefined)

\* what replace puts in for the value the callback returned: value ?? match, as text
Coalesce(value, match) ==
    IF value.t \in {"undefined", "null"} THEN match
    ELSE IF value.t = "object"
         THEN <<"[", "o", "b", "j", "e", "c", "t", " ", "O", "b", "j", "e", "c", "t", "]">>
    ELSE JsToString(value)

\* text.replace(/\{\{\s*profile\.([^}]+)\s*\}\}/g, (match, path) => ...) from position
\* pos of s on
RECURSIVE ProfileReplace(_, _, _)
ProfileReplace(s, pos, profile) ==
    IF ProfileStart(s, pos) = 0 THEN SubSeq(s, pos, Len(s))
    ELSE LET i == ProfileStart(s, pos)
             e == ProfileEndAt(s, i)
         IN  SubSeq(s, pos, i - 1)
                 \o Coalesce(Reduce(Split(PathGroup(s, i, e)), profile), SubSeq(s, i, e))
                 \o ProfileReplace(s, e + 1, profile)

\* resolveProfileTokens(text, profile)
resolveProfileTokens(text, profile) ==
    IF ~Truthy(text) THEN text
    ELSE Str(ProfileReplace(text.s, 1, profile))

\* JSON.parse of what JSON.stringify wrote: a property left out is absent
JsonParse(json) == [k \in {n \in DOMAIN json : json[n] # Omitted} |-> json[k]]

\* content?.<name>
Field(content, name) ==
    IF content # Null /\ name \in DOMAIN content THEN content[name] ELSE Undefined

\* what InformationalCard returns: null while there is an error or no content, else
\* the card with the image, the resolved headline, the body and the label of the
\* button (the badge and the progress bar, which show card.state only, are left out)
Render(content, error, profile) ==
    IF error # Null THEN Null
    ELSE IF content = Null THEN Null
    ELSE [image |-> Field(content, "image"),
          headline |-> resolveProfileTokens(Field(content, "headline"), profile),
          body |-> Field(content, "body"),
          ctaLabel |-> Field(content, "ctaLabel")]

(***************************************************************************)
(* Inputs of InformationalCard                                             *)
(***************************************************************************)
CardTin == Str(<<"t", "i", "n">>)

\* a card with white space inside the braces of a headline token, a token with no
\* value in the profile, and a nested path and a token of another namespace in the body
ElementsTin ==
    [cardId |-> CardTin,
     headline |-> Str(Tok(<<" ">> \o NameProfile \o <<" ">>) \o Tok(ProfilePrefix \o <<"z">>)),
     body |-> Str(Tok(ProfilePrefix \o <<"n", ".", "f">>) \o Tok(<<"u">>))]

\* the payload main writes for a record when no static token table is given, as the
\* destination serves it and res.json() parses it
Published(elements) == JsonParse(JsonStringify(BuildPayload(elements, NoTokens, 0).payload))

PublishedCards == {ElementsCup, ElementsMug, ElementsTin}

\* the URL main writes the record's payload to
ContentUrl(elements) == PublishUrl(ValidParams.publishHost, elements.cardId)

ContentUrls == {ContentUrl(e) : e \in PublishedCards}

\* the JSON served at a content URL
ContentAt(url) == Published(CHOOSE e \in PublishedCards : ContentUrl(e) = url)

\* the profile data: { a: 'Ann', n: { f: 'Fay' } }
ProfileAnn ==
    Obj((<<"a">> :> Str(<<"A", "n", "n">>))
        @@ (<<"n">> :> Obj(<<"f">> :> Str(<<"F", "a", "y">>))))

\* the profile prop: the profile data, or nothing when none is available
Profiles == {ProfileAnn, Undefined}

(***************************************************************************)
(* SpecUI: one InformationalCard from its mount on                         *)
(***************************************************************************)
InitUI ==
    /\ lastIndex = 0
    /\ rcall = NoCall
    /\ inv = <<>>
    /\ ui = NoUi

\* the effect for contentUrl runs: let active = true; fetch(card.contentUrl, ...)
Effect(contentUrl) == [url |-> contentUrl, active |-> TRUE, promise |-> "pending"]

\* the cleanup of the effect that ran last: active = false
CleanedUp(effects) ==
    [k \in 1..Len(effects) |->
        IF k = Len(effects) THEN [effects[k] EXCEPT !.active = FALSE] ELSE effects[k]]

\* the first render of <InformationalCard card={card} profile={profile} />:
\* useState(null) twice, and the effect runs
Mount(contentUrl, profile) ==
    /\ ~ui.mounted
    /\ "effects" \notin DOMAIN ui
    /\ ui' = [mounted |-> TRUE, card |-> [contentUrl |-> contentUrl], profile |-> profile,
              content |-> Null, error |-> Null, effects |-> <<Effect(contentUrl)>>]
    /\ UNCHANGED <<lastIndex, rcall, inv>>

\* a render with another card.contentUrl: the dependency changed, so the cleanup of
\* the last effect runs and then the effect runs again
ChangeContentUrl(contentUrl) ==
    /\ ui.mounted
    /\ contentUrl # ui.card.contentUrl
    /\ Len(ui.effects) < MaxEffects
    /\ ui' = [ui EXCEPT !.card = [contentUrl |-> contentUrl],
                        !.effects = Append(CleanedUp(ui.effects), Effect(contentUrl))]
    /\ UNCHANGED <<lastIndex, rcall, inv>>

\* the component unmounts: the cleanup of the last effect runs
Unmount ==
    /\ ui.mounted
    /\ ui' = [ui EXCEPT !.mounted = FALSE, !.effects = CleanedUp(ui.effects)]
    /\ UNCHANGED <<lastIndex, rcall, inv>>

\* FetchFulfils without the test of active
FetchFulfilsUnguarded(k) ==
    /\ "effects" \in DOMAIN ui
    /\ k \in 1..Len(ui.effects)
    /\ ui.effects[k].promise = "pending"
    /\ ui' = [ui EXCEPT !.effects[k].promise = "fulfilled",
                        !.content = ContentAt(ui.effects[k].url)]
    /\ UNCHANGED <<lastIndex, rcall, inv>>

\* the fetch of effect k gives a response and res.json() its JSON:
\* .then((json) => { if (active) setContent(json); })
FetchFulfils(k) ==
    /\ "effects" \in DOMAIN ui
    /\ k \in 1..Len(ui.effects)
    /\ ui.effects[k].promise = "pending"
    /\ ui' = [ui EXCEPT !.effects[k].promise = "fulfilled",
                        !.content = IF ui.effects[k].active
                                    THEN ContentAt(ui.effects[k].url) ELSE @]
    /\ UNCHANGED <<lastIndex, rcall, inv>>

\* the fetch of effect k or its res.json() rejects:
\* .catch((err) => { if (active) setError(err); })
FetchRejects(k) ==
    /\ "effects" \in DOMAIN ui
    /\ k \in 1..Len(ui.effects)
    /\ ui.effects[k].promise = "pending"
    /\ ui' = [ui EXCEPT !.effects[k].promise = "rejected",
                        !.error = IF ui.effects[k].active
                                  THEN [t |-> "error", url |-> ui.effects[k].url] ELSE @]
    /\ UNCHANGED <<lastIndex, rcall, inv>>

NextUI ==
    \/ \E contentUrl \in ContentUrls, profile \in Profiles : Mount(contentUrl, profile)
    \/ \E contentUrl \in ContentUrls : ChangeContentUrl(contentUrl)
    \/ Unmount
    \/ \E k \in 1..MaxEffects : FetchFulfils(k)
    \/ \E k \in 1..MaxEffects : FetchRejects(k)

SpecUI == InitUI /\ [][NextUI]_vars

(***************************************************************************)
(* Properties                                                              *)
(***************************************************************************)
\* the trimmed token name begins with `profile.`
ProfileNamed(name) ==
    /\ Len(name) >= Len(ProfilePrefix)
    /\ SubSeq(name, 1, Len(ProfilePrefix)) = ProfilePrefix

\* the text holds `{{...}}` syntax
HasTokenSyntax(text) == TokenSearch(text, 1) # 0

\* the invocation in lane i has issued its destination write
HasPut(i) == inv[i].pc \in {"writing", "done"} /\ Len(inv[i].requests) = 2

\* the destination write of the invocation in lane i
Put(i) == inv[i].requests[2]

\* the source fetch of the invocation in lane i came back with a record
Fetched(i) ==
    /\ inv[i].pc \in {"writing", "done"}
    /\ "fetched" \in DOMAIN inv[i]
    /\ inv[i].fetched.kind = "response"
    /\ inv[i].fetched.ok

\* the elements of the record the invocation in lane i fetched
RecordOf(i) == ElementsOf(inv[i].fetched.json)

\* cfPath, authorHost or publishHost is absent or empty
MissingRequired(params) ==
    \/ ~Truthy(params.cfPath)
    \/ ~Truthy(params.authorHost)
    \/ ~Truthy(params.publishHost)

\* the max-age value of a Cache-Control header `public, max-age=<value>, immutable`
MaxAgeOf(header) == SubSeq(header, 2, Len(header) - 1)

\* C1: every match of a resolveStaticTokens call whose trimmed name begins with
\* `profile.` is returned unchanged, whatever the table and whatever calls came before.
C1_ProfileTokensPreserved ==
    rcall.n > 0 =>
        \A k \in 1..Len(rcall.matches) :
            ProfileNamed(rcall.matches[k].name) => rcall.matches[k].ret = rcall.matches[k].text

\* C2: two invocations of main with the same parameters and the same fetched record
\* that both reach the write step write the same payload to the same URL.
C2_RepublishIdentical ==
    \A i, j \in Lanes :
        (/\ HasPut(i) /\ HasPut(j)
         /\ inv[i].params = inv[j].params
         /\ inv[i].fetched.json = inv[j].fetched.json)
        => (Put(i).body = Put(j).body /\ Put(i).url = Put(j).url)

\* C3: in a resolveStaticTokens call, a match whose trimmed name is not
\* profile-namespaced is replaced by the table's value when the name is a key and is
\* returned unchanged otherwise; an input with no match, and an empty or absent
\* input, is returned unchanged.
C3_StaticTokensReplaced ==
    rcall.n > 0 =>
        /\ \A k \in 1..Len(rcall.matches) :
              LET m == rcall.matches[k]
              IN  ~ProfileNamed(m.name) =>
                    m.ret = IF m.name \in DOMAIN rcall.staticTokens
                            THEN rcall.staticTokens[m.name] ELSE m.text
        /\ (rcall.matches = <<>> => rcall.ret = rcall.input)
        /\ (~Truthy(rcall.input) => rcall.ret = rcall.input)

\* C4: an invocation whose cfPath, authorHost or publishHost is absent or empty has
\* ended with statusCode 400 and has issued no network request.
C4_MissingParameter ==
    \A i \in Lanes :
        (inv[i].pc # "idle" /\ MissingRequired(inv[i].params))
        => /\ inv[i].pc = "done"
           /\ inv[i].outcome.kind = "returned"
           /\ inv[i].outcome.statusCode = 400
           /\ inv[i].requests = <<>>

\* an invocation with no publishHost has ended
C4_Witness ==
    \E i \in Lanes :
        /\ inv[i].pc = "done"
        /\ ~Truthy(inv[i].params.publishHost)
        /\ Truthy(inv[i].params.cfPath)

\* C5: an invocation whose fetched record has no cardId (absent or empty, or no
\* elements at all) has ended with statusCode 422, its only request the source fetch.
C5_MissingCardId ==
    \A i \in Lanes :
        (Fetched(i) /\ ~Truthy(ValueOf(RecordOf(i), "cardId")))
        => /\ inv[i].pc = "done"
           /\ inv[i].outcome.kind = "returned"
           /\ inv[i].outcome.statusCode = 422
           /\ Len(inv[i].requests) = 1
           /\ inv[i].requests[1].method = "GET"

\* an invocation that fetched a record with no elements has ended
C5_Witness ==
    \E i \in Lanes :
        /\ Fetched(i)
        /\ "elements" \notin DOMAIN inv[i].fetched.json
        /\ inv[i].pc = "done"

\* the source fetch of the invocation in lane i came back with a non-success response
FetchFailed(i) ==
    /\ inv[i].pc = "done"
    /\ "fetched" \in DOMAIN inv[i]
    /\ inv[i].fetched.kind = "response"
    /\ ~inv[i].fetched.ok

\* the destination write of the invocation in lane i came back with a non-success response
PutFailed(i) ==
    /\ inv[i].pc = "done"
    /\ "written" \in DOMAIN inv[i]
    /\ inv[i].written.kind = "response"
    /\ ~inv[i].written.ok

\* fetch() itself rejected in the invocation in lane i
NetworkFailed(i) ==
    /\ inv[i].pc = "done"
    /\ \/ "fetched" \in DOMAIN inv[i] /\ inv[i].fetched.kind = "error"
       \/ "written" \in DOMAIN inv[i] /\ inv[i].written.kind = "error"

AbsentOrNonNumeric(v) ==
    /\ v.t # "number"
    /\ ~(v.t = "string" /\ v.s # <<>> /\ JsNumber(v).t = "number")

\* C7: an invocation that fetched a record with a cardId has gone on to the write
\* step with a TTL that is a number, the default 86400 when the record's cacheTTL
\* value is absent or non-numeric.
C7_TtlDefaults ==
    \A i \in Lanes :
        (Fetched(i) /\ Truthy(ValueOf(RecordOf(i), "cardId")))
        => /\ HasPut(i)
           /\ inv[i].ttl.t = "number"
           /\ AbsentOrNonNumeric(ValueOf(RecordOf(i), "cacheTTL"))
                 => inv[i].ttl = Num(DefaultTTL)

\* C8: on every destination write the max-age of Cache-Control is the cacheTTL
\* written in the payload, and both are the record's cacheTTL value when that is a number.
C8_MaxAgeIsTtl ==
    \A i \in Lanes :
        HasPut(i) =>
            LET written == Put(i).body.cacheTTL
                given == ValueOf(RecordOf(i), "cacheTTL")
            IN  /\ written.t = "number"
                /\ MaxAgeOf(Put(i).headers.CacheControl) = NatToString(written.n)
                /\ given.t = "number" => written = given

\* what C9 says of the text properties and of the request, for the step in which the
\* invocation in lane i builds its payload: each text property is resolveStaticTokens
\* of the record's field with the invocation's table, called in source order on the
\* regex as the process left it, ctaAction is the record's value or 'browser', and the
\* payload goes as JSON to <publishHost>/content/cards/<cardId>.json
TextAndRequestAsBuilt(i) ==
    LET e == ElementsOf(inv'[i].fetched.json)
        st == StaticTokensOf(inv[i].params)
        p == inv'[i].payload
        h == resolveStaticTokens(ValueOf(e, "headline"), st, lastIndex)
        b == resolveStaticTokens(ValueOf(e, "body"), st, h.lastIndex)
        c == resolveStaticTokens(ValueOf(e, "ctaLabel"), st, b.lastIndex)
        t == resolveStaticTokens(ValueOf(e, "termsText"), st, c.lastIndex)
    IN  /\ p.headline = h.ret
        /\ p.body = b.ret
        /\ p.ctaLabel = c.ret
        /\ p.termsText = t.ret
        /\ p.ctaAction = IF Truthy(ValueOf(e, "ctaAction")) THEN ValueOf(e, "ctaAction")
                         ELSE Str(<<"b", "r", "o", "w", "s", "e", "r">>)
        /\ p.cardId = ValueOf(e, "cardId")
        /\ inv'[i].requests[2].method = "PUT"
        /\ inv'[i].requests[2].body = JsonStringify(p)
        /\ inv'[i].requests[2].url =
              inv[i].params.publishHost.s \o <<"/content/cards/">> \o p.cardId.s \o <<".json">>

\* the invocation in lane i goes from its source fetch to its destination write
BuildsPayload(i) == inv[i].pc = "fetching" /\ inv'[i].pc = "writing"

\* C9 as stated: the payload written has its text properties resolved, its ctaAction
\* defaulted, its destination keyed by cardId, and its image equal to the record's
\* image value.
C9_ImageIsRecordValue ==
    [][\A i \in Lanes :
          BuildsPayload(i) =>
              /\ TextAndRequestAsBuilt(i)
              /\ inv'[i].payload.image = ValueOf(ElementsOf(inv'[i].fetched.json), "image")]_vars

\* C9 amended: as stated, but the image is the record's image value, with no token
\* substitution, only when that value is present and not empty; otherwise it is null.
C9_PayloadAsBuilt ==
    [][\A i \in Lanes :
          BuildsPayload(i) =>
              LET image == ValueOf(ElementsOf(inv'[i].fetched.json), "image")
              IN  /\ TextAndRequestAsBuilt(i)
                  /\ inv'[i].payload.image = IF Truthy(image) THEN image ELSE Null]_vars

\* an invocation with a table that has x as a key writes a payload whose image holds
\* the token {{x}} and whose headline went through the resolver
C9_Witness ==
    \E i \in Lanes :
        /\ HasPut(i)
        /\ NameX \in DOMAIN StaticTokensOf(inv[i].params)
        /\ inv[i].payload.image = Str(Tok(NameX))
        /\ Truthy(ValueOf(RecordOf(i), "headline"))

\* C10: with a table no value of which holds `{{...}}` syntax, resolveStaticTokens
\* applied to its own result returns that result.
C10_Idempotent ==
    (/\ rcall.n = 2
     /\ \A k \in DOMAIN rcall.staticTokens : ~HasTokenSyntax(rcall.staticTokens[k]))
    => rcall.ret = rcall.input

\* the position of the first occurrence of text in s at or after position from,
\* 0 if none
RECURSIVE OccursFrom(_, _, _)
OccursFrom(s, text, from) ==
    IF from + Len(text) - 1 > Len(s) THEN 0
    ELSE IF SubSeq(s, from, from + Len(text) - 1) = text THEN from
    ELSE OccursFrom(s, text, from + 1)

\* s from position pos on, with each of the matches, in order, taken out once and the
\* value returned for it put in its place, and nothing else touched
RECURSIVE InsertedOnce(_, _, _)
InsertedOnce(s, pos, matches) ==
    IF matches = <<>> THEN SubSeq(s, pos, Len(s))
    ELSE LET m == Head(matches)
             i == OccursFrom(s, m.text, pos)
         IN  SubSeq(s, pos, i - 1) \o m.ret
                 \o InsertedOnce(s, i + Len(m.text), Tail(matches))

\* C11: a resolveStaticTokens call makes one pass: a match whose name is a key with a
\* value that holds `{{...}}` syntax gets that value verbatim, and the text returned
\* is the input with each match replaced once by its value, the tokens inside the
\* inserted values left unexpanded.
C11_OnePass ==
    (rcall.n > 0 /\ Truthy(rcall.input)) =>
        /\ \A k \in 1..Len(rcall.matches) :
              LET m == rcall.matches[k]
              IN  (m.name \in DOMAIN rcall.staticTokens
                   /\ HasTokenSyntax(rcall.staticTokens[m.name]))
                  => m.ret = rcall.staticTokens[m.name]
        /\ rcall.ret = Str(InsertedOnce(rcall.input.s, 1, rcall.matches))

\* a call with the table {x: '{{y}}', y: 'W'} on '{{x}}' has returned '{{y}}'
C11_Witness ==
    /\ rcall.n > 0
    /\ rcall.staticTokens = ChainTable
    /\ rcall.input = Str(Tok(NameX))
    /\ rcall.ret = Str(Tok(NameY))

\* C12: two invocations of main that are in flight together, each with its write
\* issued and not yet completed, with the same parameters and the same fetched
\* record, have written the same payload to the same URL, so the destination holds
\* the same content whichever write completes last.
C12_RaceConverges ==
    \A i, j \in Lanes :
        (/\ inv[i].pc = "writing" /\ inv[j].pc = "writing"
         /\ inv[i].params = inv[j].params
         /\ inv[i].fetched = inv[j].fetched)
        => /\ inv[i].publishUrl = inv[j].publishUrl
           /\ inv[i].payload = inv[j].payload

\* the network calls of the invocation in lane i so far: one source fetch first, at
\* most one destination write after it, the write only after a fetched record with a
\* cardId
CallsInOrder(i) ==
    inv[i].pc # "idle" =>
        /\ Len(inv[i].requests) <= 2
        /\ Len(inv[i].requests) >= 1 => inv[i].requests[1].method = "GET"
        /\ Len(inv[i].requests) = 2 =>
              /\ inv[i].requests[2].method = "PUT"
              /\ Fetched(i)
              /\ Truthy(ValueOf(RecordOf(i), "cardId"))
        /\ (FetchFailed(i) \/ MissingRequired(inv[i].params)) => Len(inv[i].requests) <= 1
        /\ inv[i].pc = "done" /\ "fetched" \in DOMAIN inv[i] /\ inv[i].fetched.kind = "error"
              => Len(inv[i].requests) = 1

\* C13: an invocation of main issues one source fetch and at most one destination
\* write, the write only after the fetch returned a record with a non-empty cardId;
\* while it runs, the only call it adds is that write, at the step from fetch to
\* write, and the step that ends it, a failed fetch or write included, adds none.
C13_NoRetry ==
    [][\A i \in Lanes :
          /\ CallsInOrder(i)'
          /\ inv[i].pc \in {"fetching", "writing"} =>
                \/ inv'[i].requests = inv[i].requests
                \/ /\ inv[i].pc = "fetching" /\ inv'[i].pc = "writing"
                   /\ Len(inv'[i].requests) = 2
                   /\ SubSeq(inv'[i].requests, 1, 1) = inv[i].requests]_vars

\* one invocation has ended on a non-success source fetch with that fetch as its only
\* call, another on a non-success destination write with its two calls
C13_Witness ==
    \E i, j \in Lanes :
        /\ FetchFailed(i) /\ Len(inv[i].requests) = 1
        /\ PutFailed(j) /\ Len(inv[j].requests) = 2

\* what the component shows at present
Shown == Render(ui.content, ui.error, ui.profile)

\* s from position pos on as C14 describes its display: each profile token, with or
\* without white space around its name, whose path has a value in the profile is
\* replaced by that value, and everything else is left as it is
RECURSIVE Personalised(_, _, _)
Personalised(s, pos, profile) ==
    IF ProfileStart(s, pos) = 0 THEN SubSeq(s, pos, Len(s))
    ELSE LET i == ProfileStart(s, pos)
             e == ProfileEndAt(s, i)
             value == Reduce(Split(Trim(PathGroup(s, i, e))), profile)
         IN  SubSeq(s, pos, i - 1)
                 \o (IF value.t = "string" THEN value.s ELSE SubSeq(s, i, e))
                 \o Personalised(s, e + 1, profile)

\* a displayed text field as C14 describes it
PersonalisedField(text, profile) ==
    IF text.t = "string" THEN Str(Personalised(text.s, 1, profile)) ELSE text

\* C14: whenever the component shows a card, its headline and its body alike are the
\* published texts with every profile token that has a value in the profile replaced
\* by that value and every other token left verbatim.
C14_ProfileTokensShownResolved ==
    (ui.mounted /\ Shown # Null) =>
        /\ Shown.headline = PersonalisedField(Field(ui.content, "headline"), ui.profile)
        /\ Shown.body = PersonalisedField(Field(ui.content, "body"), ui.profile)

\* effect k's fetch settles in this step
Settles(k) ==
    /\ k \in 1..Len(ui.effects)
    /\ ui.effects[k].promise = "pending"
    /\ ui'.effects[k].promise # "pending"

\* C16: a fetch that settles, by fulfilling or by rejecting, after its effect was
\* cleaned up changes neither content nor error, and content changes only to the JSON
\* of a fetch, settling in that step, of the card.contentUrl current at that step.
C16_StaleResponseIgnored ==
    [][ui.mounted \/ "effects" \in DOMAIN ui =>
          /\ \A k \in 1..MaxEffects :
                (Settles(k) /\ ~ui.effects[k].active)
                => (ui'.content = ui.content /\ ui'.error = ui.error)
          /\ ui'.content # ui.content =>
                \E k \in 1..MaxEffects :
                    /\ Settles(k)
                    /\ ui'.effects[k].promise = "fulfilled"
                    /\ ui.effects[k].url = ui.card.contentUrl
                    /\ ui'.content = ContentAt(ui.card.contentUrl)]_vars

\* the fetch of the first URL was fulfilled after the URL had changed, and the
\* component, still mounted, has no content from it
C16_Witness ==
    /\ ui.mounted
    /\ Len(ui.effects) >= 2
    /\ ui.effects[1].promise = "fulfilled"
    /\ ~ui.effects[1].active
    /\ ui.content = Null

\* C17: whenever the fetch of the current card.contentUrl has been fulfilled, the
\* mounted component shows a card, and the card shown is the one made of that URL's
\* JSON.
C17_CurrentContentShown ==
    (/\ ui.mounted
     /\ ui.effects[Len(ui.effects)].promise = "fulfilled")
    => /\ Shown # Null
       /\ Shown = Render(ContentAt(ui.card.contentUrl), Null, ui.profile)

\* C15: a resolveStaticTokens call that follows a call with the same input and the
\* same table returns the same text, and within a call two matches with the same
\* trimmed name and the same text are treated alike.
C15_PureFunction ==
    [][rcall'.n > 0 =>
          /\ (rcall.n > 0
              /\ rcall'.input = rcall.input
              /\ rcall'.staticTokens = rcall.staticTokens)
             => rcall'.ret = rcall.ret
          /\ \A k, l \in 1..Len(rcall'.matches) :
                (rcall'.matches[k].name = rcall'.matches[l].name
                 /\ rcall'.matches[k].text = rcall'.matches[l].text)
                => rcall'.matches[k].ret = rcall'.matches[l].ret]_vars

====
